---------------------------- MODULE Spec2Model ----------------------------
(* Model of inventory-manager.py: the InventoryDatabase storage layer over a *)
(* SQLite table `items` and the InventoryShell command loop (cmd.Cmd).       *)
(*                                                                           *)
(* Text values are sequences of one-character strings (<<"a","b">> is 'ab'); *)
(* SQL NULL / Python None is the one-element sequence NULL, which no text    *)
(* equals because its element is not a single character.                     *)
EXTENDS Integers, Sequences, FiniteSets, TLC

VARIABLES
    items,   \* the rows of table items: a function from id to the row's columns
    seq,     \* sqlite_sequence.seq for items: the largest rowid ever inserted
    now,     \* the latest reading of the wall clock (datetime.now())
    last,    \* the latest call: [op, id, args, ret]
    issued,  \* the ids add_item has returned, in the order of the calls
    pc       \* the shell's cmdloop: "awaiting", "stopped" or "raised"

vars == <<items, seq, now, last, issued, pc>>

-----------------------------------------------------------------------------
(* Bounds of the model *)

\* at most MaxId rows are ever inserted (caps sqlite_sequence)
MaxId == 2
\* clock readings range over 0..MaxTime; a reading is never smaller than the
\* one before it, and two successive readings may be equal (the clock has a
\* finite resolution)
MaxTime == 2
\* clock readings per whole second (datetime has 10^6 microseconds per second)
TicksPerSec == 2

NULL == <<"NULL">>

-----------------------------------------------------------------------------
(* datetime.now().isoformat(): "YYYY-MM-DDTHH:MM:SS" when the microsecond    *)
(* field is 0 and "YYYY-MM-DDTHH:MM:SS.ffffff" otherwise.  The fields are    *)
(* zero-padded to a fixed width, so the text is modelled field by field:     *)
(* <<seconds>> or <<seconds, fraction>>.                                     *)
isoformat(t) ==
    IF t % TicksPerSec = 0 THEN << t \div TicksPerSec >>
                           ELSE << t \div TicksPerSec, t % TicksPerSec >>

\* Python's str comparison: lexicographic, a proper prefix is smaller.
RECURSIVE StrLess(_, _)
StrLess(s, t) ==
    IF t = <<>> THEN FALSE
    ELSE IF s = <<>> THEN TRUE
    ELSE IF Head(s) # Head(t) THEN Head(s) < Head(t)
    ELSE StrLess(Tail(s), Tail(t))

StrLeq(s, t) == s = t \/ StrLess(s, t)


-----------------------------------------------------------------------------
(* Schema: CREATE TABLE items (id INTEGER PRIMARY KEY AUTOINCREMENT, ...)    *)

\* the columns of a row besides its id (the rowid)
Columns == {"name", "description", "location", "quantity",
            "date_added", "last_modified"}

Max(a, b) == IF a >= b THEN a ELSE b

\* the largest rowid in the table, 0 when the table is empty
MaxRowid == IF DOMAIN items = {} THEN 0
            ELSE CHOOSE i \in DOMAIN items : \A j \in DOMAIN items : j <= i

\* variant of NextRowid, what a plain INTEGER PRIMARY KEY hands out: one
\* more than the largest rowid now in the table
NextRowidNoAutoincrement == MaxRowid + 1

\* AUTOINCREMENT: one more than the largest rowid the table ever held, which
\* SQLite keeps in sqlite_sequence (seq)
NextRowid == Max(seq, MaxRowid) + 1

\* SELECT * FROM items: the row as the tuple the cursor yields
Row(tbl, i) == << i, tbl[i].name, tbl[i].description, tbl[i].location,
                  tbl[i].quantity, tbl[i].date_added, tbl[i].last_modified >>

\* the ids of the table in rowid order, as a sequence
RECURSIVE IdSeq(_)
IdSeq(S) == IF S = {} THEN <<>>
            ELSE LET m == CHOOSE i \in S : \A j \in S : i <= j
                 IN  <<m>> \o IdSeq(S \ {m})

-----------------------------------------------------------------------------
(* InventoryDatabase.add_item *)

\* variants of InsertedRow: last_modified not stamped with current_time;
\* description and location bound in the wrong order
InsertedRowStale(name, description, location, quantity, current_time) ==
    [name |-> name, description |-> description, location |-> location,
     quantity |-> quantity, date_added |-> current_time,
     last_modified |-> isoformat(0)]

InsertedRowSwapped(name, description, location, quantity, current_time) ==
    [name |-> name, description |-> location, location |-> description,
     quantity |-> quantity, date_added |-> current_time,
     last_modified |-> current_time]

\* VALUES (?, ?, ?, ?, ?, ?) bound to
\* (name, description, location, quantity, current_time, current_time)
InsertedRow(name, description, location, quantity, current_time) ==
    [name |-> name, description |-> description, location |-> location,
     quantity |-> quantity, date_added |-> current_time,
     last_modified |-> current_time]

\* the INSERT and commit, with the clock read at t; lastrowid is NextRowid.
\* The model stops inserting once MaxId ids have been handed out.
add_item(name, description, location, quantity, t) ==
    /\ NextRowid <= MaxId
    /\ now' = t
    /\ LET n == NextRowid
           r == InsertedRow(name, description, location, quantity, isoformat(t))
       IN  /\ items' = [i \in DOMAIN items \cup {n} |->
                           IF i = n THEN r ELSE items[i]]
           /\ seq' = n

-----------------------------------------------------------------------------
(* InventoryDatabase.get_item: fetchone() is a row or None, modelled as a    *)
(* sequence of at most one row                                               *)

\* SELECT * FROM items WHERE id = ? on table tbl, then fetchone()
SelectById(tbl, item_id) ==
    IF item_id \in DOMAIN tbl THEN << Row(tbl, item_id) >> ELSE <<>>

get_item(item_id) == SelectById(items, item_id)

-----------------------------------------------------------------------------
(* InventoryDatabase.update_item *)

allowed_fields == {"name", "description", "location", "quantity"}

\* variant of Updates: no filter on the keys
UpdatesUnfiltered(kwargs) == kwargs

\* updates = {k: v for k, v in kwargs.items() if k in allowed_fields}
Updates(kwargs) ==
    [k \in DOMAIN kwargs \cap allowed_fields |-> kwargs[k]]

\* variant of SetClause: last_modified not refreshed
SetClauseNoStamp(row, updates, current_time) ==
    [c \in Columns |-> IF c \in DOMAIN updates THEN updates[c] ELSE row[c]]

\* UPDATE items SET <k = ? for k in updates>, last_modified = ? on one row
SetClause(row, updates, current_time) ==
    [c \in Columns |->
        IF c = "last_modified" THEN current_time
        ELSE IF c \in DOMAIN updates THEN updates[c]
        ELSE row[c]]

\* variant of update_item_ret: the affected-row count decides
update_item_ret_rowcount(item_id, kwargs) ==
    DOMAIN Updates(kwargs) # {} /\ item_id \in DOMAIN items

\* the value update_item returns
update_item_ret(item_id, kwargs) == DOMAIN Updates(kwargs) # {}

\* WHERE id = ?
WhereId(i, item_id) == i = item_id

\* the store after update_item, with the clock read at t when it is read
update_item(item_id, kwargs, t) ==
    IF DOMAIN Updates(kwargs) = {}
    THEN UNCHANGED <<items, seq, now>>
    ELSE /\ now' = t
         /\ items' = [i \in DOMAIN items |->
                        IF WhereId(i, item_id)
                        THEN SetClause(items[i], Updates(kwargs), isoformat(t))
                        ELSE items[i]]
         /\ UNCHANGED seq

-----------------------------------------------------------------------------
(* InventoryDatabase.delete_item *)

\* variant of delete_item_ret: rowcount not looked at
delete_item_ret_always(item_id) == TRUE

\* cursor.rowcount > 0
delete_item_ret(item_id) == item_id \in DOMAIN items

delete_item(item_id) ==
    /\ items' = [i \in DOMAIN items \ {item_id} |-> items[i]]
    /\ UNCHANGED <<seq, now>>

-----------------------------------------------------------------------------
(* InventoryDatabase.search_items: SQLite's LIKE with its defaults (no       *)
(* ESCAPE clause, case_sensitive_like off)                                   *)

\* the upper-case ASCII letters the model's texts use, and their lower case
UpperCase == <<"A", "B", "D">>

LowerCase == <<"a", "b", "d">>

\* LIKE compares ASCII letters regardless of case
Fold(c) == IF \E k \in 1..Len(UpperCase) : UpperCase[k] = c
           THEN LowerCase[CHOOSE k \in 1..Len(UpperCase) : UpperCase[k] = c]
           ELSE c

\* pattern LIKE text: % matches any run of characters, _ any one character,
\* any other character itself up to ASCII case
RECURSIVE Like(_, _)
Like(pattern, text) ==
    IF pattern = <<>> THEN text = <<>>
    ELSE IF Head(pattern) = "%"
         THEN \E k \in 0..Len(text) :
                  Like(Tail(pattern), SubSeq(text, k + 1, Len(text)))
    ELSE IF text = <<>> THEN FALSE
    ELSE IF Head(pattern) = "_" THEN Like(Tail(pattern), Tail(text))
    ELSE /\ Fold(Head(pattern)) = Fold(Head(text))
         /\ Like(Tail(pattern), Tail(text))

\* column LIKE ? on a column that may be NULL: NULL LIKE ? is NULL, which
\* selects nothing
ColumnLike(value, pattern) == value # NULL /\ Like(pattern, value)

\* f'%{search_term}%'
SearchPattern(search_term) == <<"%">> \o search_term \o <<"%">>

\* variant of SearchWhere: AND in place of OR
SearchWhereBoth(row, search_term) ==
    /\ ColumnLike(row.name, SearchPattern(search_term))
    /\ ColumnLike(row.description, SearchPattern(search_term))

\* WHERE name LIKE ? OR description LIKE ?
SearchWhere(row, search_term) ==
    \/ ColumnLike(row.name, SearchPattern(search_term))
    \/ ColumnLike(row.description, SearchPattern(search_term))

\* fetchall() of SELECT * FROM items WHERE ...: the selected rows in rowid
\* order
RECURSIVE SelectWhere(_, _)
SelectWhere(ids, search_term) ==
    IF ids = <<>> THEN <<>>
    ELSE (IF SearchWhere(items[Head(ids)], search_term)
          THEN << Row(items, Head(ids)) >> ELSE <<>>)
         \o SelectWhere(Tail(ids), search_term)

search_items(search_term) == SelectWhere(IdSeq(DOMAIN items), search_term)

\* SELECT * FROM items, fetchall()
list_items == [n \in 1..Cardinality(DOMAIN items) |->
                  Row(items, IdSeq(DOMAIN items)[n])]

-----------------------------------------------------------------------------
(* Calls of the storage layer, with arguments of the declared types: texts  *)
(* for name, text or None for description and location, integers for        *)
(* quantity and item_id.                                                     *)

\* arguments of the add_item calls
AddInputs ==
    << [name |-> <<"b">>, description |-> <<"d">>, location |-> NULL,
        quantity |-> 3] >>

\* keyword arguments of the update_item calls
UpdateInputs ==
    << [k \in {} |-> 0],
       [quantity |-> 5],
       [name |-> <<"c">>, date_added |-> <<9>>],
       [id |-> 9, last_modified |-> <<9>>] >>

\* item ids of the get, update and delete calls: an id names a stored item, a
\* deleted one or one not yet handed out
Ids == 1..MaxId

AddItemFrom(inputs) ==
    \E n \in 1..Len(inputs), t \in now..MaxTime :
        LET a == inputs[n] IN
        /\ add_item(a.name, a.description, a.location, a.quantity, t)
        /\ last' = [op |-> "add_item", id |-> 0, args |-> a, ret |-> NextRowid]
        /\ issued' = Append(issued, NextRowid)
        /\ UNCHANGED pc

AddItemCall == AddItemFrom(AddInputs)

GetItemCall ==
    \E item_id \in Ids :
        /\ last' = [op |-> "get_item", id |-> item_id, args |-> <<>>,
                    ret |-> get_item(item_id)]
        /\ UNCHANGED <<items, seq, now, issued, pc>>

UpdateItemCall ==
    \E item_id \in Ids, n \in 1..Len(UpdateInputs), t \in now..MaxTime :
        LET kwargs == UpdateInputs[n] IN
        /\ update_item(item_id, kwargs, t)
        /\ last' = [op |-> "update_item", id |-> item_id, args |-> kwargs,
                    ret |-> update_item_ret(item_id, kwargs)]
        /\ UNCHANGED <<issued, pc>>

DeleteItemCall ==
    \E item_id \in Ids :
        /\ delete_item(item_id)
        /\ last' = [op |-> "delete_item", id |-> item_id, args |-> <<>>,
                    ret |-> delete_item_ret(item_id)]
        /\ UNCHANGED <<issued, pc>>

\* InventoryDatabase.__init__ on a fresh file: empty tables, the shell's loop
\* not yet left
Init ==
    /\ items = <<>>
    /\ seq = 0
    /\ now = 0
    /\ last = [op |-> "init", id |-> 0, args |-> <<>>, ret |-> FALSE]
    /\ issued = <<>>
    /\ pc = "awaiting"

Next == AddItemCall \/ GetItemCall \/ UpdateItemCall \/ DeleteItemCall

Spec == Init /\ [][Next]_vars

-----------------------------------------------------------------------------
(* The store under search: items whose texts mix letter case and hold the    *)
(* characters _ and %, searched with terms that do too                       *)

SearchAddInputs ==
    << [name |-> <<"a", "b">>, description |-> NULL, location |-> NULL,
        quantity |-> 1],
       [name |-> <<"A">>, description |-> <<"b", "_">>, location |-> NULL,
        quantity |-> 1],
       [name |-> <<"%">>, description |-> <<"B", "a">>, location |-> NULL,
        quantity |-> 1] >>

SearchTerms ==
    { <<>>, <<"a">>, <<"A">>, <<"b">>, <<"c">>, <<"_">>, <<"%">>,
      <<"a", "b">>, <<"b", "a">>, <<"b", "_">>, <<"a", "%", "b">>,
      <<"_", "_">>, <<"_", "_", "_">> }

AddSearchedItemCall == AddItemFrom(SearchAddInputs)

SearchItemsCall ==
    \E search_term \in SearchTerms :
        /\ last' = [op |-> "search_items", id |-> 0, args |-> search_term,
                    ret |-> search_items(search_term)]
        /\ UNCHANGED <<items, seq, now, issued, pc>>

ListItemsCall ==
    /\ last' = [op |-> "list_items", id |-> 0, args |-> <<>>,
                ret |-> list_items]
    /\ UNCHANGED <<items, seq, now, issued, pc>>

NextSearch ==
    AddSearchedItemCall \/ DeleteItemCall \/ SearchItemsCall \/ ListItemsCall

SpecSearch == Init /\ [][NextSearch]_vars

-----------------------------------------------------------------------------
(* InventoryShell: cmd.Cmd reads a line, strips it, and hands the text after *)
(* the command word to do_<command>; the loop ends when a handler returns a  *)
(* true value or raises.  pc is "awaiting" while the loop runs, "stopped"    *)
(* once a handler has returned True, "raised" once an exception has left     *)
(* cmdloop.                                                                  *)

Digits == <<"0", "1", "2", "3", "4", "5", "6", "7", "8", "9">>

IsDigit(c) == \E d \in 1..10 : Digits[d] = c

DigitValue(c) == (CHOOSE d \in 1..10 : Digits[d] = c) - 1

\* str.strip() of the blanks at both ends
RECURSIVE LStrip(_)
LStrip(s) == IF s # <<>> /\ Head(s) = " " THEN LStrip(Tail(s)) ELSE s

RECURSIVE RStrip(_)
RStrip(s) == IF s # <<>> /\ s[Len(s)] = " "
             THEN RStrip(SubSeq(s, 1, Len(s) - 1)) ELSE s

Strip(s) == RStrip(LStrip(s))

\* the index of the first blank of s, Len(s) + 1 when it has none
FirstBlank(s) ==
    IF \E i \in 1..Len(s) : s[i] = " "
    THEN CHOOSE i \in 1..Len(s) : s[i] = " " /\ \A j \in 1..(i - 1) : s[j] # " "
    ELSE Len(s) + 1

\* str.split(maxsplit=n): at most n blank-delimited words, then the rest of
\* the text from its first non-blank character on, as it is
RECURSIVE Split(_, _)
Split(s, maxsplit) ==
    LET r == LStrip(s) IN
    IF r = <<>> THEN <<>>
    ELSE IF maxsplit = 0 THEN << r >>
    ELSE << SubSeq(r, 1, FirstBlank(r) - 1) >>
         \o Split(SubSeq(r, FirstBlank(r), Len(r)), maxsplit - 1)

RECURSIVE DecimalValue(_)
DecimalValue(ds) ==
    IF ds = <<>> THEN 0
    ELSE 10 * DecimalValue(SubSeq(ds, 1, Len(ds) - 1)) + DigitValue(ds[Len(ds)])

\* int(text) succeeds: blanks stripped, an optional sign, then digits only
IntParses(text) ==
    LET b == Strip(text)
        ds == IF b # <<>> /\ Head(b) \in {"+", "-"} THEN Tail(b) ELSE b
    IN  ds # <<>> /\ \A i \in 1..Len(ds) : IsDigit(ds[i])

\* the value of int(text) when it succeeds
IntValue(text) ==
    LET b == Strip(text) IN
    IF Head(b) = "-" THEN 0 - DecimalValue(Tail(b))
    ELSE IF Head(b) = "+" THEN DecimalValue(Tail(b))
    ELSE DecimalValue(b)

\* SQLite stores a signed 64-bit INTEGER; the model scales the width down
SqliteIntBits == 8

\* sqlite3 binds a Python int only when it fits the INTEGER width, and
\* raises OverflowError from cursor.execute otherwise
FitsSqliteInt(n) ==
    -(2 ^ (SqliteIntBits - 1)) <= n /\ n <= 2 ^ (SqliteIntBits - 1) - 1

\* argument texts of the add command
AddLines ==
    { <<>>,
      <<"n">>,
      <<"n", " ", "d">>,
      <<"n", " ", "d", " ", " ", "l">>,
      <<"n", " ", "d", " ", "l", " ", "7">>,
      <<"n", " ", "d", " ", "l", " ", "-", "7">>,
      <<"n", " ", "d", " ", "l", " ", "x">>,
      <<"n", " ", "d", " ", "l", " ", "7", " ", "x">>,
      <<"n", " ", "d", " ", "l", " ", "7", "7", "7">> }

\* argument texts of the delete command
DeleteLines ==
    { <<>>, <<"1">>, <<"2">>, <<"+", "1">>, <<"x">>, <<"1", " ", "2">>,
      <<"1", "x">>, <<"7", "7", "7">> }

\* argument texts of the search command
SearchLines == { <<>>, <<"n">>, <<"D">>, <<"d", " ", "l">> }

Said(printed, id) == [printed |-> printed, id |-> id]

\* quantity = args[3] if len(args) > 3 else 1, then int(quantity), 1 on
\* ValueError
quantity_of(args) ==
    IF Len(args) > 3
    THEN IF IntParses(args[4]) THEN IntValue(args[4]) ELSE 1
    ELSE 1

do_add(arg) ==
    LET args == Split(arg, 3) IN
    /\ pc = "awaiting"
    /\ IF args = <<>>
       THEN /\ last' = [op |-> "do_add", id |-> 0, args |-> arg,
                        ret |-> Said("Error: Item name is required", 0)]
            /\ UNCHANGED <<items, seq, now, issued, pc>>
       ELSE LET name == args[1]
                description == IF Len(args) > 1 THEN args[2] ELSE NULL
                location == IF Len(args) > 2 THEN args[3] ELSE NULL
                quantity == quantity_of(args)
            IN  IF FitsSqliteInt(quantity)
                THEN /\ \E t \in now..MaxTime :
                           add_item(name, description, location, quantity, t)
                     /\ issued' = Append(issued, NextRowid)
                     /\ last' = [op |-> "do_add", id |-> 0, args |-> arg,
                                 ret |-> Said("Added item with ID", NextRowid)]
                     /\ UNCHANGED pc
                ELSE \* add_item has read the clock, then execute raises
                     /\ \E t \in now..MaxTime : now' = t
                     /\ pc' = "raised"
                     /\ last' = [op |-> "do_add", id |-> 0, args |-> arg,
                                 ret |-> Said("OverflowError", 0)]
                     /\ UNCHANGED <<items, seq, issued>>

do_list ==
    /\ pc = "awaiting"
    /\ last' = [op |-> "do_list", id |-> 0, args |-> <<>>,
                ret |-> IF list_items = <<>>
                        THEN Said("No items in inventory", 0)
                        ELSE Said("Current Inventory", Len(list_items))]
    /\ UNCHANGED <<items, seq, now, issued, pc>>

do_search(arg) ==
    /\ pc = "awaiting"
    /\ last' = [op |-> "do_search", id |-> 0, args |-> arg,
                ret |-> IF arg = <<>>
                        THEN Said("Error: Search term is required", 0)
                        ELSE IF search_items(arg) = <<>>
                        THEN Said("No items found matching", 0)
                        ELSE Said("Search results for", Len(search_items(arg)))]
    /\ UNCHANGED <<items, seq, now, issued, pc>>

do_delete(arg) ==
    /\ pc = "awaiting"
    /\ IF ~IntParses(arg)
       THEN /\ last' = [op |-> "do_delete", id |-> 0, args |-> arg,
                        ret |-> Said("Error: Please provide a valid item ID", 0)]
            /\ UNCHANGED <<items, seq, now, issued, pc>>
       ELSE LET item_id == IntValue(arg) IN
            IF FitsSqliteInt(item_id)
            THEN /\ delete_item(item_id)
                 /\ last' = [op |-> "do_delete", id |-> item_id, args |-> arg,
                             ret |-> IF delete_item_ret(item_id)
                                     THEN Said("Deleted item", item_id)
                                     ELSE Said("No item found with ID", item_id)]
                 /\ UNCHANGED <<issued, pc>>
            ELSE /\ pc' = "raised"
                 /\ last' = [op |-> "do_delete", id |-> item_id, args |-> arg,
                             ret |-> Said("OverflowError", 0)]
                 /\ UNCHANGED <<items, seq, now, issued>>

do_quit ==
    /\ pc = "awaiting"
    /\ pc' = "stopped"
    /\ last' = [op |-> "do_quit", id |-> 0, args |-> <<>>,
                ret |-> Said("Goodbye!", 0)]
    /\ UNCHANGED <<items, seq, now, issued>>

AddCommand == \E arg \in AddLines : do_add(arg)

ListCommand == do_list

SearchCommand == \E arg \in SearchLines : do_search(arg)

DeleteCommand == \E arg \in DeleteLines : do_delete(arg)

QuitCommand == do_quit

NextShell ==
    AddCommand \/ ListCommand \/ SearchCommand \/ DeleteCommand \/ QuitCommand

SpecShell == Init /\ [][NextShell]_vars

-----------------------------------------------------------------------------
(* Properties of the storage layer, checked under Spec *)

HasAllowed(kwargs) == DOMAIN kwargs \cap allowed_fields # {}

SetsQuantity5(kwargs) == "quantity" \in DOMAIN kwargs /\ kwargs["quantity"] = 5

\* C1: the ids add_item returns are strictly increasing in the order of the
\* calls, so no id is returned twice, whatever was deleted in between.
C1_IdsStrictlyIncreasing ==
    \A i, j \in 1..Len(issued) : i < j => issued[i] < issued[j]

\* add_item has returned 2 while item 1, then the highest id, was already gone
C1_Witness ==
    /\ last.op = "add_item"
    /\ last.ret = 2
    /\ issued = <<1, 2>>
    /\ 1 \notin DOMAIN items

\* C2: in the state add_item leaves, get_item of the returned id yields one
\* row holding that id and the supplied name, description, location and
\* quantity, with date_added equal to last_modified.
C2_AddThenGet ==
    last.op = "add_item" =>
        LET r == get_item(last.ret) IN
        /\ Len(r) = 1
        /\ r[1][1] = last.ret
        /\ r[1][2] = last.args.name
        /\ r[1][3] = last.args.description
        /\ r[1][4] = last.args.location
        /\ r[1][5] = last.args.quantity
        /\ r[1][6] = r[1][7]

C2_Witness ==
    /\ last.op = "add_item"
    /\ last.args.description # NULL
    /\ last.args.location # last.args.description
    /\ get_item(last.ret) # <<>>
    /\ now > 0

\* C3: a delete_item(id) step returns true iff id was stored before it;
\* after it get_item(id) is absent, every other item is as before, no item
\* appears, and a further delete_item(id) would return false.
C3_Delete ==
    [][last'.op = "delete_item" =>
         LET id == last'.id IN
         /\ last'.ret = (id \in DOMAIN items)
         /\ SelectById(items', id) = <<>>
         /\ id \notin DOMAIN items'
         /\ DOMAIN items' = DOMAIN items \ {id}
         /\ \A j \in DOMAIN items' : items'[j] = items[j]]_vars

\* an item was deleted and another one is still stored
C3_Witness ==
    /\ last.op = "delete_item"
    /\ last.ret = TRUE
    /\ DOMAIN items # {}

\* C4: an update_item step returns false, and writes nothing, when its
\* keyword arguments hold no allowed field; otherwise it returns true, also
\* when no item has the id.
C4_UpdateReturn ==
    [][last'.op = "update_item" =>
         IF HasAllowed(last'.args)
         THEN last'.ret = TRUE
         ELSE last'.ret = FALSE /\ UNCHANGED <<items, seq, now>>]_vars

\* update_item returned true for an id that is not stored
C4_Witness ==
    /\ last.op = "update_item"
    /\ last.ret = TRUE
    /\ last.id \notin DOMAIN items

\* C5: an update_item step with an allowed field keeps the set of ids and
\* every other row; in the row of the id each supplied allowed field takes
\* the supplied value and every column but those and last_modified
\* (date_added included) keeps its value.
C5_UpdateFrame ==
    [][(last'.op = "update_item" /\ HasAllowed(last'.args)) =>
         LET id == last'.id
             kw == last'.args
         IN  /\ DOMAIN items' = DOMAIN items
             /\ \A j \in DOMAIN items \ {id} : items'[j] = items[j]
             /\ id \in DOMAIN items =>
                  \A c \in Columns \ {"last_modified"} :
                     items'[id][c] = IF c \in DOMAIN kw \cap allowed_fields
                                     THEN kw[c] ELSE items[id][c]]_vars

\* a stored item was updated with an allowed and a disallowed field while
\* another item was stored
C5_Witness ==
    /\ last.op = "update_item"
    /\ last.id \in DOMAIN items
    /\ "name" \in DOMAIN last.args
    /\ "date_added" \in DOMAIN last.args
    /\ Cardinality(DOMAIN items) = 2

\* C6 as stated: an update_item(id, quantity=5) step on a stored item leaves
\* quantity 5 and a last_modified strictly greater than before the step.
C6_StrictlyGreater ==
    [][(/\ last'.op = "update_item"
        /\ SetsQuantity5(last'.args)
        /\ last'.id \in DOMAIN items) =>
         LET r == SelectById(items', last'.id) IN
         /\ r[1][5] = 5
         /\ StrLess(items[last'.id].last_modified, r[1][7])]_vars

\* C6 amended: after such a step quantity is 5 and last_modified is the text
\* of the clock reading the step took; it is not smaller than before the
\* step, and strictly greater when that reading is later than the latest
\* reading taken before.
C6_Refreshed ==
    [][(/\ last'.op = "update_item"
        /\ SetsQuantity5(last'.args)
        /\ last'.id \in DOMAIN items) =>
         LET r == SelectById(items', last'.id)
             before == items[last'.id].last_modified
         IN  /\ r[1][5] = 5
             /\ r[1][7] = isoformat(now')
             /\ StrLeq(before, r[1][7])
             /\ now' > now => StrLess(before, r[1][7])]_vars

\* quantity was set to 5 by an update that read the same instant as the add
C6_Witness ==
    /\ last.op = "update_item"
    /\ SetsQuantity5(last.args)
    /\ last.id \in DOMAIN items
    /\ items[last.id].quantity = 5
    /\ items[last.id].last_modified = items[last.id].date_added

-----------------------------------------------------------------------------
(* Properties of search_items, checked under SpecSearch *)

\* term occurs in text as a contiguous run of characters
Contains(text, term) ==
    \E i \in 1..(Len(text) - Len(term) + 1) :
        SubSeq(text, i, i + Len(term) - 1) = term

FoldText(text) == [i \in 1..Len(text) |-> Fold(text[i])]

\* term occurs in text up to ASCII letter case
ContainsFolded(text, term) == Contains(FoldText(text), FoldText(term))

HoldsTerm(row, term) ==
    \/ Contains(row.name, term)
    \/ row.description # NULL /\ Contains(row.description, term)

HoldsTermFolded(row, term) ==
    \/ ContainsFolded(row.name, term)
    \/ row.description # NULL /\ ContainsFolded(row.description, term)

NoWildcard(term) == \A i \in 1..Len(term) : term[i] \notin {"_", "%"}

Returned(ret) == { ret[n][1] : n \in 1..Len(ret) }

\* the result lists stored rows as they are, each once, in id order
IsListingOfStoredRows(ret) ==
    /\ \A n \in 1..Len(ret) :
          ret[n][1] \in DOMAIN items /\ ret[n] = Row(items, ret[n][1])
    /\ \A m, n \in 1..Len(ret) : m < n => ret[m][1] < ret[n][1]

\* C8 as stated: search_items(term) returns exactly the items whose name or
\* description contains term as a substring.
C8_ExactlySubstring ==
    last.op = "search_items" =>
        /\ IsListingOfStoredRows(last.ret)
        /\ Returned(last.ret) =
              { i \in DOMAIN items : HoldsTerm(items[i], last.args) }

\* C8 amended: search_items(term) returns stored rows, among them every item
\* whose name or description contains term; for a term without _ and % it
\* returns exactly the items that contain term up to ASCII letter case; an
\* item with a NULL description is judged by its name alone.
C8_LikeSemantics ==
    last.op = "search_items" =>
        LET term == last.args
            ids == Returned(last.ret)
        IN  /\ IsListingOfStoredRows(last.ret)
            /\ \A i \in DOMAIN items : HoldsTerm(items[i], term) => i \in ids
            /\ NoWildcard(term) =>
                 ids = { i \in DOMAIN items : HoldsTermFolded(items[i], term) }
            /\ \A i \in ids :
                 items[i].description = NULL =>
                    Like(SearchPattern(term), items[i].name)

\* a search returned an item with no description and left another item out
C8_Witness ==
    /\ last.op = "search_items"
    /\ \E i \in Returned(last.ret) : items[i].description = NULL
    /\ \E i \in DOMAIN items : i \notin Returned(last.ret)
    /\ NoWildcard(last.args)

-----------------------------------------------------------------------------
(* Properties of the shell, checked under SpecShell *)

\* every blank-delimited word of the text
Words(text) == Split(text, Len(text))

\* C9: an add command with a non-empty argument line inserts exactly one
\* item, named by the first word, whose quantity is the integer value of
\* the fourth word when that word parses as an integer and 1 otherwise.
C9_AddQuantity ==
    [][(last'.op = "do_add" /\ Words(last'.args) # <<>>) =>
         LET w == Words(last'.args)
             quantity == IF Len(w) > 3 /\ IntParses(w[4])
                         THEN IntValue(w[4]) ELSE 1
         IN  \E n \in DOMAIN items' \ DOMAIN items :
                /\ DOMAIN items' = DOMAIN items \cup {n}
                /\ \A j \in DOMAIN items : items'[j] = items[j]
                /\ items'[n].name = w[1]
                /\ items'[n].quantity = quantity]_vars

\* C10: an add with an empty argument, a search without a term and a delete
\* whose argument is no integer leave the store as it is and the loop
\* awaiting the next command, and only quit ends the loop.
C10_OnlyQuitEndsLoop ==
    [][/\ ( \/ last'.op = "do_add" /\ Words(last'.args) = <<>>
            \/ last'.op = "do_search" /\ last'.args = <<>>
            \/ last'.op = "do_delete" /\ ~IntParses(last'.args) )
          => (UNCHANGED <<items, seq>> /\ pc' = "awaiting")
       /\ last'.op \in {"do_add", "do_list", "do_search", "do_delete"}
          => pc' = "awaiting"]_vars

=============================================================================
